---- MODULE Spec2Model ----
(***************************************************************************)
(* Model of Icarus' Photometry class (src/Photometry/Photometry.py): the   *)
(* construction of a fitter from an observation file and an atmosphere     *)
(* file, and the calls made on a constructed fitter.                       *)
(*                                                                         *)
(* Real numbers are exact rationals <<n, d>> with d > 0, in lowest terms.  *)
(* NaN (any non-finite float) is <<0, 0>>, Python's None is <<0, -1>>.     *)
(***************************************************************************)
EXTENDS Integers, Sequences, FiniteSets, TLC

VARIABLES
    pc,     \* the position in __init__, then "ready", "partial" or "raised"
    lines,  \* the observation file given to __init__
    atmo,   \* the atmosphere file given to __init__
    obj,    \* the attributes of the Photometry object
    exc,    \* the exception that left __init__, "" when none
    star,   \* the surface the surface model holds (Core.Star's state)
    ret,    \* what the last call returned or raised
    log,    \* the calls the last call made to the surface model, in order
    fits    \* the results of the Fit_linear calls of the last call, in order

vars == <<pc, lines, atmo, obj, exc, star, ret, log, fits>>

---------------------------------------------------------------------------
(* Bounds of the model.                                                    *)

\* most lines of an observation file
MaxLines == 3
\* most lines of an atmosphere file
MaxAtmoLines == 3
\* most datasets of a fitter on which calls are made
MaxDatasets == 2
\* the largest wavelength or frequency of a spectrum's grid
MaxWave == 5

---------------------------------------------------------------------------
(* Exact rational arithmetic.                                              *)

NaN == <<0, 0>>
None == <<0, -1>>

IsNone(a) == a[2] = -1
IsNaN(a) == a[2] = 0

Abs(n) == IF n < 0 THEN -n ELSE n

RECURSIVE GCD(_, _)
GCD(a, b) == IF b = 0 THEN a ELSE GCD(b, a % b)

Q(n, d) ==
    IF d = 0 THEN NaN
    ELSE LET g == GCD(Abs(n), Abs(d))
             s == IF d < 0 THEN -1 ELSE 1
         IN  <<(s * n) \div g, (s * d) \div g>>

R(n) == <<n, 1>>

\* sums and products cancel the common factors before they multiply
RAdd(a, b) ==
    IF IsNaN(a) \/ IsNaN(b) THEN NaN
    ELSE LET g == GCD(a[2], b[2])
         IN  Q(a[1] * (b[2] \div g) + b[1] * (a[2] \div g), (a[2] \div g) * b[2])
RNeg(a) == IF IsNaN(a) THEN NaN ELSE <<-a[1], a[2]>>
RSub(a, b) == RAdd(a, RNeg(b))
RMul(a, b) ==
    IF IsNaN(a) \/ IsNaN(b) THEN NaN
    ELSE LET g == GCD(Abs(a[1]), b[2])
             h == GCD(Abs(b[1]), a[2])
         IN  Q((a[1] \div g) * (b[1] \div h), (a[2] \div h) * (b[2] \div g))
RInv(a) == IF IsNaN(a) \/ a[1] = 0 THEN NaN ELSE IF a[1] < 0 THEN <<-a[2], -a[1]>> ELSE <<a[2], a[1]>>
RDiv(a, b) == RMul(a, RInv(b))
RLt(a, b) == ~IsNaN(a) /\ ~IsNaN(b) /\ a[1] * b[2] < b[1] * a[2]
RLe(a, b) == ~IsNaN(a) /\ ~IsNaN(b) /\ a[1] * b[2] <= b[1] * a[2]
RFloor(a) == a[1] \div a[2]
\* x % 1. of a float: the result has the sign of the divisor, so it is in [0,1)
RMod1(a) == IF IsNaN(a) THEN NaN ELSE Q(a[1] % a[2], a[2])

RECURSIVE RSum(_)
RSum(s) == IF s = <<>> THEN R(0) ELSE RAdd(Head(s), RSum(Tail(s)))

\* elementwise operations of numpy arrays, arrays being sequences
VSub(v, w) == [k \in 1..Len(v) |-> RSub(v[k], w[k])]

RECURSIVE Hstack(_)
Hstack(ss) == IF ss = <<>> THEN <<>> ELSE Head(ss) \o Hstack(Tail(ss))

---------------------------------------------------------------------------
(* The files.                                                              *)

\* A line of the observation file: c0 is its first character ("#", "\n",
\* " " or "x" for any other one), ncols the number of fields line.split()
\* gives, and the fields follow by name: tmp[0] is id, tmp[4] shift, tmp[5]
\* calib, tmp[6] soft (8 and 9 columns), tmp[-2] flag (9 columns), tmp[-1]
\* fln.  A field the format does not hold is never read.
Line(c0, ncols, id, shift, calib, soft, flag, fln) ==
    [c0 |-> c0, ncols |-> ncols, id |-> id, shift |-> shift, calib |-> calib,
     soft |-> soft, flag |-> flag, fln |-> fln]

CommentLine == Line("#", 2, "", R(0), R(0), R(0), "", "")
EmptyLine == Line("\n", 0, "", R(0), R(0), R(0), "", "")
SpaceLine == Line(" ", 0, "", R(0), R(0), R(0), "", "")

\* the dataset ids of the model; "V_" carries the '_' marker
Ids == {"V", "B", "V_"}
\* tmp[0].find('_') != -1
HasMarker(id) == id \in {"V_"}

\* The table np.loadtxt reads from a data file, the three columns the record
\* names (phase, value, error) unpacked.
Loadtxt(fln) ==
    IF fln = "a.dat"
    THEN <<  <<Q(1, 4), Q(3, 2)>>, <<R(1), R(2)>>, <<R(1), R(2)>>  >>
    ELSE <<  <<Q(1, 2)>>, <<R(3)>>, <<R(1)>>  >>

Rec7 == {Line("x", 7, "V", R(0), R(1), R(0), "", "a.dat"),
         Line("x", 7, "V_", Q(3, 4), R(1), R(0), "", "a.dat")}
Rec8 == {Line("x", 8, "B", Q(3, 4), R(1), Q(1, 2), "", "b.dat"),
         Line("x", 8, "V_", R(0), R(1), R(0), "", "b.dat")}
Rec9 == {Line("x", 9, "V", Q(3, 4), R(2), R(0), "mag", "b.dat"),
         Line("x", 9, "V_", Q(3, 4), R(2), Q(1, 2), "mag", "a.dat"),
         Line("x", 9, "B", R(0), R(2), R(0), "flux", "a.dat"),
         Line("x", 9, "B", R(0), R(2), R(0), "lum", "a.dat")}
RecOther == {Line("x", 6, "V", R(0), R(1), R(0), "", "a.dat")}

DataLines == {CommentLine, EmptyLine, SpaceLine} \cup Rec7 \cup Rec8 \cup Rec9 \cup RecOther

SeqsUpTo(S, n) == UNION {[1..k -> S] : k \in 0..n}

DataFiles == SeqsUpTo(DataLines, MaxLines)

\* A line of the atmosphere file; a grid line names the band file, which
\* ReadHDF5 loads as a grid with its extinction coefficient and zero point.
Exts == {R(1), R(2)}
ZeroPoint == R(8)
AtmoLine(c0, ext) == [c0 |-> c0, ext |-> ext]
AtmoLines == {AtmoLine("#", R(0)), AtmoLine("x", R(1))}
AtmoFiles == SeqsUpTo(AtmoLines, MaxAtmoLines)

---------------------------------------------------------------------------
(* _Read_data                                                              *)

EmptyData ==
    [mag |-> <<>>, phase |-> <<>>, err |-> <<>>, calib |-> <<>>, fln |-> <<>>,
     id |-> <<>>, softening |-> <<>>]

\* the phases stored for a record: raw phase minus shift, reduced modulo 1
\* unless the id carries the marker
StoredPhaseWrongMarker(line, d0) ==
    IF ~HasMarker(line.id)
    THEN [k \in 1..Len(d0) |-> RSub(d0[k], line.shift)]
    ELSE [k \in 1..Len(d0) |-> RMod1(RSub(d0[k], line.shift))]

StoredPhase(line, d0) ==
    IF HasMarker(line.id)
    THEN [k \in 1..Len(d0) |-> RSub(d0[k], line.shift)]
    ELSE [k \in 1..Len(d0) |-> RMod1(RSub(d0[k], line.shift))]

\* the appends of a magnitude record, softening being 0. for 7 columns
AppendMag(data, line, d, soft) ==
    [data EXCEPT !.phase = Append(@, StoredPhase(line, d[1])),
                 !.mag = Append(@, d[2]),
                 !.err = Append(@, d[3]),
                 !.calib = Append(@, line.calib),
                 !.fln = Append(@, line.fln),
                 !.id = Append(@, line.id),
                 !.softening = Append(@, soft)]

\* the appends of a flux record: the phase is appended, then
\* self.data['flux'] is looked up
AppendFlux(data, line, d) ==
    LET d1 == [data EXCEPT !.phase = Append(@, StoredPhase(line, d[1]))]
    IN  IF "flux" \notin DOMAIN d1
        THEN [data |-> d1, exc |-> "KeyError"]
        ELSE [data |-> [d1 EXCEPT !.flux = Append(@, d[2]),
                                  !.flux_err = Append(@, d[3]),
                                  !.calib = Append(@, line.calib),
                                  !.fln = Append(@, line.fln),
                                  !.id = Append(@, line.id),
                                  !.softening = Append(@, line.soft)],
              exc |-> ""]

\* whether the loop body skips the line: line[0] is '#' or '\n'
Skipped(line) == line.c0 = "#" \/ line.c0 = "\n"

\* the 9-column record, by its flag; any other flag appends nothing
Read9(data, line) ==
    IF line.flag = "mag"
    THEN [data |-> AppendMag(data, line, Loadtxt(line.fln), line.soft), exc |-> ""]
    ELSE IF line.flag = "flux" THEN AppendFlux(data, line, Loadtxt(line.fln))
    ELSE [data |-> data, exc |-> ""]

\* a record of no supported column count
OtherColumnsIgnored(data, line) == [data |-> data, exc |-> ""]

OtherColumns(data, line) == [data |-> data, exc |-> "Exception"]

\* one iteration of the loop over the lines
ReadLine(data, line) ==
    IF Skipped(line) THEN [data |-> data, exc |-> ""]
    ELSE IF line.ncols = 7
         THEN [data |-> AppendMag(data, line, Loadtxt(line.fln), R(0)), exc |-> ""]
    ELSE IF line.ncols = 8
         THEN [data |-> AppendMag(data, line, Loadtxt(line.fln), line.soft), exc |-> ""]
    ELSE IF line.ncols = 9 THEN Read9(data, line)
    ELSE OtherColumns(data, line)

RECURSIVE ReadLines(_, _, _)
ReadLines(ls, k, data) ==
    IF k > Len(ls) THEN [data |-> data, exc |-> ""]
    ELSE LET r == ReadLine(data, ls[k])
         IN  IF r.exc # "" THEN r ELSE ReadLines(ls, k + 1, r.data)

Read_data_result(ls) == ReadLines(ls, 1, EmptyData)

---------------------------------------------------------------------------
(* _Read_atmo                                                              *)

Grid(ext) == [ext |-> ext, zp |-> ZeroPoint, flux0 |-> ZeroPoint]

RECURSIVE Read_atmo_result(_)
Read_atmo_result(ls) ==
    IF ls = <<>> THEN <<>>
    ELSE IF Head(ls).c0 # "#" /\ Head(ls).c0 # "\n"
         THEN <<Grid(Head(ls).ext)>> \o Read_atmo_result(Tail(ls))
         ELSE Read_atmo_result(Tail(ls))

---------------------------------------------------------------------------
(* Utils.Flux, the unit converter.  Magnitudes are counted in units of     *)
(* 2.5 log10(2) mag, so that one unit halves the flux; between two whole   *)
(* magnitudes the exponential is interpolated linearly.                    *)

RECURSIVE Pow2(_)
Pow2(k) == IF k = 0 THEN R(1) ELSE IF k > 0 THEN RMul(R(2), Pow2(k - 1)) ELSE RDiv(Pow2(k + 1), R(2))

\* 2^(-m)
Pow2Neg(m) ==
    IF IsNaN(m) THEN NaN
    ELSE LET k == RFloor(m)
             t == RSub(m, R(k))
         IN  RMul(Pow2(-k), RSub(R(1), RDiv(t, R(2))))

\* -log2(r), the inverse of Pow2Neg; not finite for r <= 0
RECURSIVE NegLog2(_)
NegLog2(r) ==
    IF IsNaN(r) \/ r[1] <= 0 THEN NaN
    ELSE IF RLt(R(1), r) THEN RSub(NegLog2(RDiv(r, R(2))), R(1))
    ELSE IF RLe(r, Q(1, 2)) THEN RAdd(NegLog2(RMul(r, R(2))), R(1))
    ELSE RMul(R(2), RSub(R(1), r))

\* d(flux)/flux per unit of magnitude, ln(2) to one digit
LnUnit == Q(7, 10)

Mag_to_flux(mag, flux0) == RMul(flux0, Pow2Neg(mag))
Mag_to_flux_err(mag, mag_err, flux0) == RMul(RMul(Mag_to_flux(mag, flux0), mag_err), LnUnit)

Flux_to_mag(flux, flux0) == NegLog2(RDiv(flux, flux0))
Flux_to_mag_err(flux, flux_err, flux0) == RDiv(flux_err, RMul(flux, LnUnit))

\* flux0 * 2 b sinh(-m ln2 - ln b) = flux0 * (P - b^2 / P) with P = 2^(-m)
Asinh_to_flux(mag, flux0, b) ==
    LET P == Pow2Neg(mag) IN RMul(flux0, RSub(P, RDiv(RMul(b, b), P)))
Asinh_to_flux_err(mag, mag_err, flux0, b) ==
    LET P == Pow2Neg(mag)
    IN  RMul(RMul(RMul(flux0, RAdd(P, RDiv(RMul(b, b), P))), mag_err), LnUnit)

---------------------------------------------------------------------------
(* _Setup                                                                  *)

\* the loop over j in np.arange(i+1): the first j whose id is that of i
RECURSIVE FirstSame(_, _, _)
FirstSame(ids, i, j) ==
    IF ids[i + 1] = ids[j + 1] THEN j
    ELSE IF j >= i THEN i
    ELSE FirstSame(ids, i, j + 1)

\* the same loop without its break: the last match wins
GroupOfNoBreak(ids, i) == i

GroupOf(ids, i) == FirstSame(ids, i, 0)

Grouping(ids) == [i \in 0..(Len(ids) - 1) |-> GroupOf(ids, i)]

\* the flux and flux error _Setup derives for dataset i (1-based)
SetupFlux(data, grids, i) ==
    IF data.softening[i] = R(0)
    THEN [k \in 1..Len(data.mag[i]) |-> Mag_to_flux(data.mag[i][k], grids[i].zp)]
    ELSE [k \in 1..Len(data.mag[i]) |->
            Asinh_to_flux(data.mag[i][k], grids[i].zp, data.softening[i])]

SetupFluxErr(data, grids, i) ==
    IF data.softening[i] = R(0)
    THEN [k \in 1..Len(data.mag[i]) |->
            Mag_to_flux_err(data.mag[i][k], data.err[i][k], grids[i].zp)]
    ELSE [k \in 1..Len(data.mag[i]) |->
            Asinh_to_flux_err(data.mag[i][k], data.err[i][k], grids[i].zp, data.softening[i])]

\* the attributes _Setup adds to the object; has_key('mag') holds of every
\* dictionary _Read_data builds, so the magnitudes are the representation read
Setup_result(o) ==
    LET n == o.ndataset
        data == o.data
        grids == o.atmo_grid
        d2 == [mag |-> data.mag, phase |-> data.phase, err |-> data.err,
               calib |-> data.calib, fln |-> data.fln, id |-> data.id,
               softening |-> data.softening,
               ext |-> [i \in 1..n |-> grids[i].ext],
               flux |-> [i \in 1..n |-> SetupFlux(data, grids, i)],
               flux_err |-> [i \in 1..n |-> SetupFluxErr(data, grids, i)]]
    IN  [data |-> d2, atmo_grid |-> grids, ndataset |-> n, star |-> o.star,
         ext |-> Hstack([i \in 1..n |-> [k \in 1..Len(data.phase[i]) |-> grids[i].ext]]),
         grouping |-> Grouping(data.id),
         mag |-> Hstack(d2.mag), err |-> Hstack(d2.err), phase |-> Hstack(d2.phase),
         flux |-> Hstack(d2.flux), flux_err |-> Hstack(d2.flux_err),
         ndata |-> Len(Hstack(d2.flux))]

---------------------------------------------------------------------------
(* __init__, step by step.  pc is the position in __init__: "start",       *)
(* "data_read", "atmo_read", "counted", "lightcurve", and at the end       *)
(* "ready" (returned, complete), "partial" (returned after the count       *)
(* message, _Setup never run) or "raised" (an exception left __init__, the *)
(* caller holds no object).                                                *)

\* the surface model before any Make_surface
NoSurface == [made |-> FALSE]

\* no call was made, or its result was dropped
NoReturn == [op |-> "none"]

\* no Fit_linear call was made
NoFits == [res1 |-> <<>>, offset_band |-> <<>>, res2 |-> <<>>]

Init ==
    /\ pc = "start"
    /\ lines = <<>>
    /\ atmo = <<>>
    /\ obj = <<>>
    /\ exc = ""
    /\ star = NoSurface
    /\ ret = NoReturn
    /\ log = <<>>
    /\ fits = NoFits

Read_data ==
    /\ pc = "start"
    /\ \E f \in DataFiles :
          LET r == Read_data_result(f)
          IN  /\ lines' = f
              /\ obj' = [data |-> r.data]
              /\ exc' = r.exc
              /\ pc' = IF r.exc = "" THEN "data_read" ELSE "raised"
    /\ UNCHANGED <<atmo, star, ret, log, fits>>

Read_atmo ==
    /\ pc = "data_read"
    /\ \E f \in AtmoFiles :
          /\ atmo' = f
          /\ obj' = [data |-> obj.data, atmo_grid |-> Read_atmo_result(f)]
    /\ pc' = "atmo_read"
    /\ UNCHANGED <<lines, exc, star, ret, log, fits>>

\* the comparison of the two counts: on a mismatch __init__ prints and returns
CountMismatch(o) == [pc |-> "partial", exc |-> ""]

Check_count ==
    /\ pc = "atmo_read"
    /\ IF Len(obj.atmo_grid) # Len(obj.data.mag)
       THEN /\ pc' = CountMismatch(obj).pc
            /\ exc' = CountMismatch(obj).exc
            /\ obj' = obj
       ELSE /\ pc' = "counted"
            /\ exc' = exc
            /\ obj' = [data |-> obj.data, atmo_grid |-> obj.atmo_grid,
                       ndataset |-> Len(obj.atmo_grid)]
    /\ UNCHANGED <<lines, atmo, star, ret, log, fits>>

Init_lightcurve ==
    /\ pc = "counted"
    /\ obj' = [data |-> obj.data, atmo_grid |-> obj.atmo_grid,
               ndataset |-> obj.ndataset, star |-> "Star"]
    /\ pc' = "lightcurve"
    /\ UNCHANGED <<lines, atmo, exc, star, ret, log, fits>>

\* np.hstack of an empty list raises ValueError
Setup ==
    /\ pc = "lightcurve"
    /\ IF obj.ndataset = 0
       THEN obj' = obj /\ exc' = "ValueError" /\ pc' = "raised"
       ELSE obj' = Setup_result(obj) /\ exc' = exc /\ pc' = "ready"
    /\ UNCHANGED <<lines, atmo, star, ret, log, fits>>

Next == Read_data \/ Read_atmo \/ Check_count \/ Init_lightcurve \/ Setup

Spec == Init /\ [][Next]_vars

---------------------------------------------------------------------------
(* The surface model (Core.Star) and the helpers of Utils the calls use.   *)

ParKeys == <<"q", "porb", "incl", "k1", "omega", "filling", "tempgrav", "temp", "tirr">>

\* a parameter vector: a list of nine values or a dictionary of them
ListPar(v) == [isdict |-> FALSE, val |-> v]
DictPar(v) == [isdict |-> TRUE,
               val |-> [q |-> v[1], porb |-> v[2], incl |-> v[3], k1 |-> v[4], omega |-> v[5],
                        filling |-> v[6], tempgrav |-> v[7], temp |-> v[8], tirr |-> v[9]]]

Pars == {ListPar(<<10, 7200, 1, 300, 1, 9, 8, 4, 5>>),
         DictPar(<<11, 7300, 2, 310, 2, 8, 25, 6, 3>>)}

\* Star.Make_surface: the surface realised for the nine parameters
Star_Make_surface(q, porb, incl, k1, omega, filling, tempgrav, temp, tirr) ==
    [made |-> TRUE, q |-> q, porb |-> porb, incl |-> incl, k1 |-> k1, omega |-> omega,
     filling |-> filling, tempgrav |-> tempgrav, temp |-> temp, tirr |-> tirr]

\* Star.Mag_flux: the magnitude of the realised surface at a phase through an
\* atmosphere grid; a function of the three that is not linear in the phase
\* (the triangle wave |2 phase - 1|)
Star_Mag_flux(st, phase, grid) ==
    LET t == RSub(RMul(R(2), phase), R(1))
    IN  RAdd(R(st.incl), RAdd(grid.ext, IF t[1] < 0 THEN RNeg(t) ELSE t))

\* Utils.Series.Getaxispos_vector for one query: the index of the grid
\* interval, clamped to [0, N-2], and the weight of its right end
AxisIndex(grid, q) ==
    LET N == Len(grid)
        below == {j \in 0..(N - 1) : RLe(grid[j + 1], q)}
        top == IF below = {} THEN 0 ELSE CHOOSE j \in below : \A k \in below : k <= j
    IN  IF top > N - 2 THEN N - 2 ELSE top

AxisWeight(grid, q) ==
    LET j == AxisIndex(grid, q)
    IN  RDiv(RSub(q, grid[j + 1]), RSub(grid[j + 2], grid[j + 1]))

\* Utils.Misc.Fit_linear: the weighted least-squares line y = m x + b, with m
\* and b fitted when None and held when given; err is the error of each point.
\* exc is "DegenerateInputError" when the normal equations have no solution.
\* The weighted sums of the normal equations, the weights being 1/err^2:
FitSums(y, x, w) ==
    [N |-> Len(y),
     S |-> RSum(w),
     Sx |-> RSum([k \in 1..Len(y) |-> RMul(w[k], x[k])]),
     Sy |-> RSum([k \in 1..Len(y) |-> RMul(w[k], y[k])]),
     Sxx |-> RSum([k \in 1..Len(y) |-> RMul(w[k], RMul(x[k], x[k]))]),
     Sxy |-> RSum([k \in 1..Len(y) |-> RMul(w[k], RMul(x[k], y[k]))])]

\* the fit returns floats: its results are rounded to the nearest multiple of
\* Ulp, the resolution the results are kept with
Ulp == Q(1, 64)

Rounded(a) ==
    IF IsNaN(a) THEN NaN ELSE RMul(R(RFloor(RAdd(RDiv(a, Ulp), Q(1, 2)))), Ulp)

FitDet(s) == RSub(RMul(s.S, s.Sxx), RMul(s.Sx, s.Sx))

FitDegenerate(s, m, b) ==
    IF IsNone(m) /\ IsNone(b) THEN s.N < 2 \/ FitDet(s) = R(0)
    ELSE IF IsNone(m) THEN s.N < 1 \/ s.Sxx = R(0)
    ELSE IF IsNone(b) THEN s.N < 1 \/ s.S = R(0)
    ELSE FALSE

FitSlope(s, m, b) ==
    IF ~IsNone(m) THEN m
    ELSE IF IsNone(b)
         THEN Rounded(RDiv(RSub(RMul(s.S, s.Sxy), RMul(s.Sx, s.Sy)), FitDet(s)))
    ELSE Rounded(RDiv(RSub(s.Sxy, RMul(b, s.Sx)), s.Sxx))

FitIntercept(s, m, b) ==
    IF ~IsNone(b) THEN b
    ELSE IF IsNone(m)
         THEN Rounded(RDiv(RSub(RMul(s.Sxx, s.Sy), RMul(s.Sx, s.Sxy)), FitDet(s)))
    ELSE Rounded(RDiv(RSub(s.Sy, RMul(m, s.Sx)), s.S))

FitChi2(y, x, w, mm, bb) ==
    RSum([k \in 1..Len(y) |->
            RMul(w[k], RMul(RSub(y[k], RAdd(RMul(mm, x[k]), bb)),
                            RSub(y[k], RAdd(RMul(mm, x[k]), bb))))])

FitValues(y, x, w, mm, bb) ==
    [exc |-> "", b |-> bb, m |-> mm, chi2 |-> Rounded(FitChi2(y, x, w, mm, bb))]

FitOut(y, x, w, s, m, b) ==
    IF FitDegenerate(s, m, b)
    THEN [exc |-> "DegenerateInputError", b |-> NaN, m |-> NaN, chi2 |-> NaN]
    ELSE FitValues(y, x, w, FitSlope(s, m, b), FitIntercept(s, m, b))

FitWeighted(y, x, w, m, b) == FitOut(y, x, w, FitSums(y, x, w), m, b)

Fit_linear(y, x, err, m, b) ==
    FitWeighted(y, x, [k \in 1..Len(y) |-> RInv(RMul(err[k], err[k]))], m, b)

\* the default x of Fit_linear: np.arange(len(y))
Arange(n) == [k \in 1..n |-> R(k - 1)]

---------------------------------------------------------------------------
(* Make_surface                                                            *)

Make_surface_resultSwapped(par) ==
    IF par.isdict
    THEN Star_Make_surface(par.val.q, par.val.porb, par.val.incl, par.val.k1, par.val.omega,
                           par.val.filling, par.val.tempgrav, par.val.tirr, par.val.temp)
    ELSE Star_Make_surface(par.val[1], par.val[2], par.val[3], par.val[4], par.val[5],
                           par.val[6], par.val[7], par.val[8], par.val[9])

Make_surface_result(par) ==
    IF par.isdict
    THEN Star_Make_surface(par.val.q, par.val.porb, par.val.incl, par.val.k1, par.val.omega,
                           par.val.filling, par.val.tempgrav, par.val.temp, par.val.tirr)
    ELSE Star_Make_surface(par.val[1], par.val[2], par.val[3], par.val[4], par.val[5],
                           par.val[6], par.val[7], par.val[8], par.val[9])

\* the surface the star holds after self.Make_surface(par), st being the one
\* it held before: Star.Make_surface overwrites it
RealizedOnce(st, par) == IF st.made THEN st ELSE Make_surface_result(par)

Realized(st, par) == Make_surface_result(par)

SurfaceEvent == [ev |-> "Make_surface", i |-> -1, phase |-> NaN]
FluxEvent(i, phase) == [ev |-> "Mag_flux", i |-> i, phase |-> phase]

---------------------------------------------------------------------------
(* Get_flux.  Datasets are numbered from 0 as in the code; sequences are   *)
(* indexed from 1, so dataset i is element i + 1.                          *)

\* nsamples is None or a number R(n)
SamplePhases(n) == [k \in 1..n |-> Q(k - 1, n)]

\* the phases the model is evaluated at for dataset i
EvalPhases(o, nsamples, i) ==
    IF IsNone(nsamples) THEN o.data.phase[i + 1] ELSE SamplePhases(nsamples[1])

NoneIsZero(a) == IF IsNone(a) THEN R(0) ELSE a

\* offsets = self.data['ext']*AV + DM
Offsets(o, DM, AV) ==
    [k \in 1..o.ndataset |-> RAdd(RMul(o.data.ext[k], NoneIsZero(AV)), NoneIsZero(DM))]

\* whether dataset i takes the curve of an earlier dataset
CopiesLeaderAlways(o, nsamples, i) == o.grouping[i] < i

CopiesLeaderNever(o, nsamples, i) == FALSE

CopiesLeader(o, nsamples, i) == ~IsNone(nsamples) /\ o.grouping[i] < i

\* the curve computed for dataset i: Mag_flux at each phase, plus offsets[i]
OwnCurve(o, st, nsamples, offsets, i) ==
    LET ph == EvalPhases(o, nsamples, i)
    IN  [k \in 1..Len(ph) |->
            RAdd(Star_Mag_flux(st, ph[k], o.atmo_grid[i + 1]), offsets[i + 1])]

\* the list flux after the datasets 0..n-1 were appended
RECURSIVE FluxLoop(_, _, _, _, _)
FluxLoop(o, st, nsamples, offsets, n) ==
    IF n = 0 THEN <<>>
    ELSE LET prev == FluxLoop(o, st, nsamples, offsets, n - 1)
             i == n - 1
         IN  IF CopiesLeader(o, nsamples, i)
             THEN Append(prev, prev[o.grouping[i] + 1])
             ELSE Append(prev, OwnCurve(o, st, nsamples, offsets, i))

\* the Mag_flux calls of that loop, in order
RECURSIVE FluxLoopLog(_, _, _)
FluxLoopLog(o, nsamples, n) ==
    IF n = 0 THEN <<>>
    ELSE LET i == n - 1
             ph == EvalPhases(o, nsamples, i)
         IN  FluxLoopLog(o, nsamples, n - 1) \o
             (IF CopiesLeader(o, nsamples, i) THEN <<>>
              ELSE [k \in 1..Len(ph) |-> FluxEvent(i, ph[k])])

\* flux[i][inds]*(1-ws) + flux[i][inds+1]*ws at the observed phases of dataset i
Interpolate(curve, grid, obs) ==
    [k \in 1..Len(obs) |->
        LET j == AxisIndex(grid, obs[k])
            ws == AxisWeight(grid, obs[k])
        IN  RAdd(RMul(curve[j + 1], RSub(R(1), ws)), RMul(curve[j + 2], ws))]

\* The second loop.  flux[i] is rebound to a new array at step i, so the
\* array a later duplicate shares with its leader is the leader's sampled
\* curve, not the interpolated one.
InterpolateAllAtLeaderPhases(o, nsamples, raw) ==
    [k \in 1..Len(raw) |->
        Interpolate(raw[k], SamplePhases(nsamples[1]), o.data.phase[o.grouping[k - 1] + 1])]

InterpolateAll(o, nsamples, raw) ==
    [k \in 1..Len(raw) |->
        Interpolate(raw[k], SamplePhases(nsamples[1]), o.data.phase[k])]

\* the value Get_flux returns, the surface st being realised
Get_flux_value(o, st, flat, DM, AV, nsamples) ==
    LET offsets == Offsets(o, DM, AV)
        raw == FluxLoop(o, st, nsamples, offsets, o.ndataset)
        flux == IF IsNone(nsamples) THEN raw ELSE InterpolateAll(o, nsamples, raw)
    IN  IF flat THEN Hstack(flux) ELSE flux

Get_flux_log(o, nsamples) == <<SurfaceEvent>> \o FluxLoopLog(o, nsamples, o.ndataset)

AttributeError(op) == [op |-> op, exc |-> "AttributeError"]

NSamples == {None, R(3)}
\* the pairs (DM, AV) the calls are made with
DMAVs == {<<R(0), R(0)>>, <<R(1), R(1)>>, <<None, R(1)>>, <<None, None>>}

\* Calls are made on the object __init__ returned, complete or not.
Returned == pc \in {"ready", "partial"}

Make_surface ==
    /\ Returned /\ ret = NoReturn
    /\ \E par \in Pars :
          IF "star" \in DOMAIN obj
          THEN /\ star' = Realized(star, par)
               /\ ret' = [op |-> "Make_surface", exc |-> "", par |-> par]
               /\ log' = <<SurfaceEvent>>
          ELSE /\ star' = star
               /\ ret' = AttributeError("Make_surface")
               /\ log' = <<>>
    /\ fits' = NoFits
    /\ UNCHANGED <<pc, lines, atmo, obj, exc>>

Get_flux ==
    /\ Returned /\ ret = NoReturn
    /\ \E par \in Pars, flat \in BOOLEAN, da \in DMAVs, nsamples \in NSamples :
          IF "star" \in DOMAIN obj
          THEN /\ star' = Realized(star, par)
               /\ ret' = [op |-> "Get_flux", exc |-> "", par |-> par, flat |-> flat,
                          DM |-> da[1], AV |-> da[2], nsamples |-> nsamples,
                          val |-> Get_flux_value(obj, Realized(star, par), flat,
                                                 da[1], da[2], nsamples)]
               /\ log' = Get_flux_log(obj, nsamples)
          ELSE /\ star' = star
               /\ ret' = AttributeError("Get_flux")
               /\ log' = <<>>
    /\ fits' = NoFits
    /\ UNCHANGED <<pc, lines, atmo, obj, exc>>

---------------------------------------------------------------------------
(* Get_flux_theoretical                                                    *)

\* the list flux after the datasets 0..n-1 were appended: a dataset whose
\* group leader is earlier takes the leader's array, whatever its own phases
RECURSIVE TheoLoop(_, _, _, _, _)
TheoLoop(o, st, phases, offsets, n) ==
    IF n = 0 THEN <<>>
    ELSE LET prev == TheoLoop(o, st, phases, offsets, n - 1)
             i == n - 1
         IN  IF o.grouping[i] < i
             THEN Append(prev, prev[o.grouping[i] + 1])
             ELSE Append(prev, [k \in 1..Len(phases[n]) |->
                            RAdd(Star_Mag_flux(st, phases[n][k], o.atmo_grid[n]), offsets[n])])

\* the Mag_flux calls of that loop, in order
RECURSIVE TheoLoopLog(_, _, _)
TheoLoopLog(o, phases, n) ==
    IF n = 0 THEN <<>>
    ELSE TheoLoopLog(o, phases, n - 1) \o
         (IF o.grouping[n - 1] < n - 1 THEN <<>>
          ELSE [k \in 1..Len(phases[n]) |-> FluxEvent(n - 1, phases[n][k])])

Get_flux_theoretical_value(o, st, phases, DM, AV) ==
    TheoLoop(o, st, phases, Offsets(o, DM, AV), o.ndataset)

\* the phases argument: one list of phases for each dataset, the same list
\* for all of them or a list of its own for each
TheoPhases(n) ==
    {[i \in 1..n |-> <<Q(1, 4), Q(1, 2)>>], [i \in 1..n |-> <<Q(i - 1, 4)>>]}

Get_flux_theoretical ==
    /\ Returned /\ ret = NoReturn
    /\ \E par \in Pars, da \in DMAVs :
          IF "star" \in DOMAIN obj
          THEN \E phases \in TheoPhases(obj.ndataset) :
                  /\ star' = Realized(star, par)
                  /\ ret' = [op |-> "Get_flux_theoretical", exc |-> "", par |-> par,
                             phases |-> phases, DM |-> da[1], AV |-> da[2],
                             val |-> Get_flux_theoretical_value(obj, Realized(star, par),
                                                                phases, da[1], da[2])]
                  /\ log' = <<SurfaceEvent>> \o TheoLoopLog(obj, phases, obj.ndataset)
          ELSE /\ star' = star
               /\ ret' = AttributeError("Get_flux_theoretical")
               /\ log' = <<>>
    /\ fits' = NoFits
    /\ UNCHANGED <<pc, lines, atmo, obj, exc>>

---------------------------------------------------------------------------
(* Calc_chi2                                                               *)

\* a Fit_linear call as the log of fits keeps it: its arguments and result
FitRecord(y, x, err, m, b, out) ==
    [y |-> y, x |-> x, err |-> err, m_in |-> m, b_in |-> b, out |-> out]

FitCall(y, x, err, m, b) == FitRecord(y, x, err, m, b, Fit_linear(y, x, err, m, b))

\* the data stage in the magnitude domain, dataset i (from 1)
DataFitMag(o, pred, i) ==
    FitCall(VSub(o.data.mag[i], pred[i]), Arange(Len(pred[i])), o.data.err[i], R(0), None)

\* the data stage in the flux domain
DataFitFlux(o, pred, i) ==
    FitCall(o.data.flux[i],
            [k \in 1..Len(pred[i]) |-> Mag_to_flux(pred[i][k], o.atmo_grid[i].flux0)],
            o.data.flux_err[i], None, R(0))

\* offset_band -= self.data['ext']*AV + DM, DM and AV being the band-stage
\* values; dm_in and av_in are the arguments of the call
CorrectedOffsetGivenValues(o, offset_band, DM, AV, dm_in, av_in) ==
    [i \in 1..Len(offset_band) |->
        RSub(offset_band[i], RAdd(RMul(o.data.ext[i], NoneIsZero(av_in)), NoneIsZero(dm_in)))]

CorrectedOffset(o, offset_band, DM, AV, dm_in, av_in) ==
    [i \in 1..Len(offset_band) |->
        RSub(offset_band[i], RAdd(RMul(o.data.ext[i], AV), DM))]

\* The attributes of the fitter after offset_band -= ...: the subtraction in
\* place writes into offset_band, which is a column of res1 or a new array,
\* an array of the call and no attribute of the fitter.
StoredAfterCorrectionInCalib(o, offset_band) ==
    IF offset_band = <<>> THEN o ELSE [o EXCEPT !.data.calib = offset_band]

StoredAfterCorrection(o, offset_band) == o

Raised(op, e) == [op |-> op, exc |-> e]

\* the branch offset_free == 0, from the fit on
FixedResiduals(o, diff, dm, av) ==
    [k \in 1..Len(diff) |-> RDiv(RSub(diff[k], RAdd(RMul(o.ext[k], av), dm)), o.err[k])]

Calc_chi2_fixed_out(o, par, full_output, diff, fit) ==
    [fits |-> [res1 |-> <<fit>>, offset_band |-> [i \in 1..o.ndataset |-> R(0)], res2 |-> <<>>],
     ret |-> IF fit.out.exc # "" THEN Raised("Calc_chi2", fit.out.exc)
             ELSE [op |-> "Calc_chi2", exc |-> "", full_output |-> full_output,
                   chi2 |-> RAdd(fit.out.chi2, R(0)),
                   offset |-> [i \in 1..o.ndataset |-> R(0)], par |-> par,
                   res |-> FixedResiduals(o, diff, fit.out.b, fit.out.m),
                   dm |-> fit.out.b, av |-> fit.out.m]]

Calc_chi2_fixed_fit(o, par, DM, AV, full_output, diff) ==
    Calc_chi2_fixed_out(o, par, full_output, diff, FitCall(diff, o.ext, o.err, AV, DM))

Calc_chi2_fixed(o, st, par, DM, AV, nsamples, full_output) ==
    Calc_chi2_fixed_fit(o, par, DM, AV, full_output,
                        VSub(o.mag, Get_flux_value(o, st, TRUE, R(0), R(0), nsamples)))

\* the branch offset_free != 0: the data stage, the band stage, the result
FreeResiduals(o, pred, offset_band, influx) ==
    IF influx THEN None
    ELSE [i \in 1..o.ndataset |-> [k \in 1..Len(pred[i]) |->
            RDiv(RSub(RSub(o.data.mag[i][k], pred[i][k]), offset_band[i]), o.data.err[i][k])]]

\* chi2 = chi2_data + chi2_band
TotalChi2(chi2_data, chi2_band) == RAdd(chi2_data, chi2_band)

Calc_chi2_free_out(o, par, DM, AV, influx, full_output, pred, res1, offset_band, res2) ==
    [fits |-> [res1 |-> res1, offset_band |-> offset_band, res2 |-> <<res2>>],
     ret |-> IF \E i \in 1..o.ndataset : res1[i].out.exc # ""
             THEN Raised("Calc_chi2", "DegenerateInputError")
             ELSE IF res2.out.exc # "" THEN Raised("Calc_chi2", res2.out.exc)
             ELSE [op |-> "Calc_chi2", exc |-> "", full_output |-> full_output,
                   chi2 |-> TotalChi2(RSum([i \in 1..o.ndataset |-> res1[i].out.chi2]),
                                      res2.out.chi2),
                   offset |-> CorrectedOffset(o, offset_band, res2.out.b, res2.out.m, DM, AV),
                   par |-> par,
                   res |-> FreeResiduals(o, pred, offset_band, influx),
                   dm |-> res2.out.b, av |-> res2.out.m]]

Calc_chi2_free_band(o, par, DM, AV, influx, full_output, pred, res1, offset_band) ==
    Calc_chi2_free_out(o, par, DM, AV, influx, full_output, pred, res1, offset_band,
                       FitCall(offset_band, o.data.ext, o.data.calib, AV, DM))

Calc_chi2_free_data(o, par, DM, AV, influx, full_output, pred, res1) ==
    Calc_chi2_free_band(o, par, DM, AV, influx, full_output, pred, res1,
        [i \in 1..o.ndataset |-> IF influx THEN NegLog2(res1[i].out.m) ELSE res1[i].out.b])

Calc_chi2_free_pred(o, par, DM, AV, influx, full_output, pred) ==
    Calc_chi2_free_data(o, par, DM, AV, influx, full_output, pred,
        [i \in 1..o.ndataset |->
            IF influx THEN DataFitFlux(o, pred, i) ELSE DataFitMag(o, pred, i)])

Calc_chi2_free(o, st, par, DM, AV, nsamples, influx, full_output) ==
    Calc_chi2_free_pred(o, par, DM, AV, influx, full_output,
                        Get_flux_value(o, st, FALSE, R(0), R(0), nsamples))

Calc_chi2_result(o, st, par, offset_free, DM, AV, nsamples, influx, full_output) ==
    IF offset_free = 0
    THEN Calc_chi2_fixed(o, st, par, DM, AV, nsamples, full_output)
    ELSE Calc_chi2_free(o, st, par, DM, AV, nsamples, influx, full_output)

\* the arguments of a call, kept with its result
WithArgs(r, offset_free, DM, AV, nsamples, influx, full_output) ==
    [args |-> [offset_free |-> offset_free, DM |-> DM, AV |-> AV,
               nsamples |-> nsamples, influx |-> influx, full_output |-> full_output]] @@ r

Calc_chi2 ==
    /\ Returned /\ ret = NoReturn
    /\ \E par \in Pars, offset_free \in {0, 1}, DM \in {da[1] : da \in DMAVs},
          AV \in {da[2] : da \in DMAVs}, nsamples \in NSamples,
          influx \in BOOLEAN, full_output \in BOOLEAN :
          <<DM, AV>> \in DMAVs /\
          IF "star" \in DOMAIN obj
          THEN \E r \in {Calc_chi2_result(obj, Realized(star, par), par, offset_free,
                                            DM, AV, nsamples, influx, full_output)} :
                   /\ star' = Realized(star, par)
                   /\ ret' = WithArgs(r.ret, offset_free, DM, AV, nsamples, influx, full_output)
                   /\ fits' = r.fits
                   /\ log' = Get_flux_log(obj, nsamples)
                   /\ obj' = StoredAfterCorrection(obj, IF r.ret.exc = "" /\ offset_free = 1
                                                         THEN r.ret.offset ELSE <<>>)
          ELSE /\ star' = star
               /\ ret' = AttributeError("Calc_chi2")
               /\ fits' = NoFits
               /\ log' = <<>>
               /\ obj' = obj
    /\ UNCHANGED <<pc, lines, atmo, exc>>

---------------------------------------------------------------------------
(* Get_Keff                                                                *)

\* np.sin(cts.twopi*phase): exact at the quarter phases, linear between them
Sin2Pi(phase) ==
    LET q == RMul(R(4), RMod1(phase))
    IN  IF RLe(q, R(1)) THEN q
        ELSE IF RLe(q, R(3)) THEN RSub(R(2), q)
        ELSE RSub(q, R(4))

\* Star.Keff: the luminosity-weighted velocity of the realised surface at a
\* phase through an atmosphere grid
Star_Keff(st, phase, grid) == RAdd(RMul(R(st.incl), Sin2Pi(phase)), grid.ext)

\* phases = np.arange(nphases)/float(nphases)
KeffPhases(nphases) == [k \in 1..nphases |-> Q(k - 1, nphases)]

KeffEvent(phase) == [ev |-> "Keff", i |-> -1, phase |-> phase]

\* the default err of Fit_linear: every point has the same weight
UnitErr(n) == [k \in 1..n |-> R(1)]

\* tmp = Utils.Misc.Fit_linear(Keffs, np.sin(cts.twopi*(phases)), inline=True):
\* neither the slope nor the intercept is given
KeffFitFixedIntercept(Keffs, phases) ==
    FitCall(Keffs, [k \in 1..Len(phases) |-> Sin2Pi(phases[k])], UnitErr(Len(phases)),
            None, R(0))

KeffFit(Keffs, phases) ==
    FitCall(Keffs, [k \in 1..Len(phases) |-> Sin2Pi(phases[k])], UnitErr(Len(phases)),
            None, None)

KeffArgs(par, nphases, atmo_grid, make_surface) ==
    [par |-> par, nphases |-> nphases, atmo_grid |-> atmo_grid, make_surface |-> make_surface]

\* Get_Keff from the sampling on, the surface st being the one in the star
Get_Keff_fitted(fit) ==
    [fits |-> [res1 |-> <<fit>>, offset_band |-> <<>>, res2 |-> <<>>],
     ret |-> IF fit.out.exc # "" THEN Raised("Get_Keff", fit.out.exc)
             ELSE [op |-> "Get_Keff", exc |-> "", val |-> fit.out.m]]

Get_Keff_sampled(st, grid, phases) ==
    Get_Keff_fitted(KeffFit([k \in 1..Len(phases) |-> Star_Keff(st, phases[k], grid)], phases))

\* The result of Get_Keff and the Keff calls it makes.  With make_surface the
\* name func_par is read, which no scope defines; a star whose surface was
\* never made has no velocities to give.
Get_Keff_result(o, st, nphases, atmo_grid, make_surface) ==
    IF make_surface
    THEN [fits |-> NoFits, ret |-> Raised("Get_Keff", "NameError"), log |-> <<>>]
    ELSE IF atmo_grid >= Len(o.atmo_grid)
    THEN [fits |-> NoFits, ret |-> Raised("Get_Keff", "IndexError"), log |-> <<>>]
    ELSE IF "star" \notin DOMAIN o
    THEN [fits |-> NoFits, ret |-> Raised("Get_Keff", "AttributeError"), log |-> <<>>]
    ELSE IF ~st.made
    THEN [fits |-> NoFits, ret |-> Raised("Get_Keff", "SurfaceModelError"),
          log |-> <<KeffEvent(R(0))>>]
    ELSE Get_Keff_sampled(st, o.atmo_grid[atmo_grid + 1], KeffPhases(nphases)) @@
         [log |-> [k \in 1..nphases |-> KeffEvent(KeffPhases(nphases)[k])]]

NPhases == {3, 4}

Get_Keff ==
    /\ Returned /\ ret = NoReturn
    /\ \E par \in Pars, nphases \in NPhases, atmo_grid \in 0..(MaxDatasets - 1),
          make_surface \in BOOLEAN :
          \E r \in {Get_Keff_result(obj, star, nphases, atmo_grid, make_surface)} :
              /\ ret' = [args |-> KeffArgs(par, nphases, atmo_grid, make_surface)] @@ r.ret
              /\ fits' = r.fits
              /\ log' = r.log
    /\ UNCHANGED <<pc, lines, atmo, obj, exc, star>>

\* the caller drops the result of the last call
Drop ==
    /\ ret # NoReturn
    /\ ret' = NoReturn
    /\ log' = <<>>
    /\ fits' = NoFits
    /\ UNCHANGED <<pc, lines, atmo, obj, exc, star>>

---------------------------------------------------------------------------
(* The calls on a fitter: the initial states are the objects __init__      *)
(* returns for the files of CallFiles and CallAtmos.                       *)

CallLines ==
    {Line("x", 7, "V", R(0), R(1), R(0), "", "a.dat"),
     Line("x", 9, "V", Q(3, 4), R(2), R(0), "mag", "b.dat"),
     Line("x", 8, "B", Q(3, 4), R(1), Q(1, 2), "", "b.dat")}

CallFiles == SeqsUpTo(CallLines, MaxDatasets) \ {<<>>}

CallAtmos == SeqsUpTo({AtmoLine("x", e) : e \in Exts}, MaxDatasets)

\* the object __init__ returns for an observation file that is read without
\* an exception and an atmosphere file
ObjectOf(f, a) ==
    LET data == Read_data_result(f).data
        grids == Read_atmo_result(a)
    IN  IF Len(grids) # Len(data.mag)
        THEN [data |-> data, atmo_grid |-> grids]
        ELSE Setup_result([data |-> data, atmo_grid |-> grids, ndataset |-> Len(grids),
                           star |-> "Star"])

InitCalls ==
    /\ lines \in CallFiles
    /\ atmo \in CallAtmos
    /\ Len(atmo) = Len(lines) \/ Len(atmo) = 0
    /\ obj = ObjectOf(lines, atmo)
    /\ pc = IF Len(atmo) = Len(lines) THEN "ready" ELSE "partial"
    /\ exc = ""
    /\ star = NoSurface
    /\ ret = NoReturn
    /\ log = <<>>
    /\ fits = NoFits

NextCalls ==
    Make_surface \/ Get_flux \/ Get_flux_theoretical \/ Calc_chi2 \/ Get_Keff \/ Drop

SpecCalls == InitCalls /\ [][NextCalls]_vars

---------------------------------------------------------------------------
(* Utils.Filter.  A spectrum is a grid w of wavelengths or frequencies and  *)
(* the flux densities f on it; obj holds the spectrum the functions are     *)
(* applied to, ret the result of the last application.                      *)

\* the number of elements of S below x
Rank(S, x) == Cardinality({y \in S : y < x})

\* the ascending grid of the whole numbers of S
GridOf(S) == [k \in 1..Cardinality(S) |-> R(CHOOSE x \in S : Rank(S, x) = k - 1)]

\* the ascending grids of at least two points among 0..MaxWave
Grids == {GridOf(S) : S \in {T \in SUBSET (0..MaxWave) : Cardinality(T) >= 2}}

\* the level of the flat spectra
Level == R(2)

\* the spectra: constant at Level, or rising with w
Spectra ==
    {[w |-> g, f |-> [k \in 1..Len(g) |-> Level]] : g \in Grids} \cup
    {[w |-> g, f |-> [k \in 1..Len(g) |-> RAdd(RMul(g[k], g[k]), R(1))]] : g \in Grids}

\* the elements of v the mask keeps, in order
RECURSIVE Masked(_, _)
Masked(v, mask) ==
    IF v = <<>> THEN <<>>
    ELSE IF Head(mask) THEN <<Head(v)>> \o Masked(Tail(v), Tail(mask))
    ELSE Masked(Tail(v), Tail(mask))

\* inds = (w>=wrange[0])*(w<=wrange[1]); wrange is <<>> for None
TrimMask(w, wrange) ==
    [k \in 1..Len(w) |-> RLe(wrange[1], w[k]) /\ RLe(w[k], wrange[2])]

Trimmed(sp, wrange) ==
    IF wrange = <<>> THEN sp
    ELSE [w |-> Masked(sp.w, TrimMask(sp.w, wrange)), f |-> Masked(sp.f, TrimMask(sp.w, wrange))]

\* the number of elements of np.arange(start, stop, step): the k >= 0 with
\* start + k*step < stop
RECURSIVE ArangeCount(_, _, _)
ArangeCount(start, stop, step) ==
    IF RLt(start, stop) THEN 1 + ArangeCount(RAdd(start, step), stop, step) ELSE 0

\* np.arange(w[0], w[-1]+resample*0.5, resample), as np.arange(start, stop, step)
NewGrid(w, resample) ==
    [k \in 1..ArangeCount(w[1], RAdd(w[Len(w)], RMul(resample, Q(1, 2))), resample) |->
        RAdd(w[1], RMul(R(k - 1), resample))]

\* f[pos]*(1-weight) + f[pos+1]*weight at the points of w_new
Resampled(sp, w_new) ==
    [w |-> w_new, f |-> Interpolate(sp.f, sp.w, w_new)]

\* Resample_spectrum on the trimmed spectrum; w[0] of an empty grid raises
\* IndexError, and so does f[pos+1] on a grid of one point
Resample_trimmed(sp, resample) ==
    IF IsNone(resample) THEN [exc |-> "", w |-> sp.w, f |-> sp.f]
    ELSE IF Len(sp.w) < 2 THEN [exc |-> "IndexError", w |-> <<>>, f |-> <<>>]
    ELSE [exc |-> ""] @@ Resampled(sp, NewGrid(sp.w, resample))

Resample_spectrum_result(sp, wrange, resample) == Resample_trimmed(Trimmed(sp, wrange), resample)

WRanges == {<<>>, <<R(1), R(MaxWave - 1)>>, <<R(MaxWave + 1), R(MaxWave + 2)>>}
Resamples == {None, Q(1, 2), R(2), R(3)}

Resample_spectrum ==
    /\ pc = "spectrum" /\ ret = NoReturn
    /\ \E wrange \in WRanges, resample \in Resamples :
          ret' = [op |-> "Resample_spectrum", wrange |-> wrange, resample |-> resample] @@
                 Resample_spectrum_result(obj, wrange, resample)
    /\ UNCHANGED <<pc, lines, atmo, obj, exc, star, log, fits>>

\* scipy.integrate.trapz(y, x)
Trapz(y, x) ==
    RSum([k \in 1..(Len(x) - 1) |->
            RMul(RSub(x[k + 1], x[k]), RMul(RAdd(y[k + 1], y[k]), Q(1, 2)))])

\* a boxcar filter: response 1 from lo to hi, 0 elsewhere
Boxcar(lo, hi) == [lo |-> lo, hi |-> hi]

\* f_band = band_func(w)
Band_func(band, w) ==
    [k \in 1..Len(w) |-> IF RLe(band.lo, w[k]) /\ RLe(w[k], band.hi) THEN R(1) ELSE R(0)]

\* the factor 1e-10 from angstrom to metre and cts.c, the speed of light in
\* m/s, in units that keep the products small: c/1e-10 stays larger than the
\* square of every wavelength of the grids
Angstrom == Q(1, 10)
LightSpeed == R(300)

VMul(v, u) == [k \in 1..Len(v) |-> RMul(v[k], u[k])]
VDiv(v, u) == [k \in 1..Len(v) |-> RDiv(v[k], u[k])]
VScale(v, a) == [k \in 1..Len(v) |-> RMul(v[k], a)]

\* np.any(nu): nu is the array w when the flag nu is set, else the flag False
AnyNu(nu, w) == nu /\ \E k \in 1..Len(w) : w[k] # R(0)

AB_nuUnweighted(f_band, nu, f_nu) ==
    RDiv(Trapz(VDiv(VMul(f_band, f_nu), nu), nu), Trapz(f_band, nu))

\* trapz(f_band*f_nu/nu, nu) / trapz(f_band/nu, nu)
AB_nu(f_band, nu, f_nu) ==
    RDiv(Trapz(VDiv(VMul(f_band, f_nu), nu), nu), Trapz(VDiv(f_band, nu), nu))

\* trapz(f_band*f_wav*wav, wav) / trapz(f_band/wav*cts.c, wav)
AB_wav(f_band, wav, f_wav) ==
    RDiv(Trapz(VMul(VMul(f_band, f_wav), wav), wav),
         Trapz(VScale(VDiv(f_band, wav), LightSpeed), wav))

\* trapz(f_band*f/w, w) / trapz(f_band*cts.c/w**3, w), then * 1e-10
ST_nu(f_band, w, f) ==
    RMul(RDiv(Trapz(VDiv(VMul(f_band, f), w), w),
              Trapz(VDiv(VScale(f_band, LightSpeed), VMul(w, VMul(w, w))), w)),
         Angstrom)

\* trapz(f_band*f*w, w) / trapz(f_band*w, w), then * 1e-10
ST_wav(f_band, w, f) ==
    RMul(RDiv(Trapz(VMul(VMul(f_band, f), w), w), Trapz(VMul(f_band, w), w)), Angstrom)

\* Band_integration.  With the flag nu set and no non-zero frequency,
\* np.any(nu) is false and the AB branch reads wav, which was never bound.
Band_integration_result(band, sp, nu, AB) ==
    IF AB
    THEN IF AnyNu(nu, sp.w)
         THEN [exc |-> "", val |-> AB_nu(Band_func(band, sp.w), sp.w, sp.f)]
         ELSE IF nu THEN [exc |-> "UnboundLocalError", val |-> NaN]
         ELSE [exc |-> "",
               val |-> AB_wav(Band_func(band, sp.w), VScale(sp.w, Angstrom),
                              VScale(sp.f, RInv(Angstrom)))]
    ELSE IF AnyNu(nu, sp.w)
         THEN [exc |-> "", val |-> ST_nu(Band_func(band, sp.w), sp.w, sp.f)]
         ELSE [exc |-> "", val |-> ST_wav(Band_func(band, sp.w), sp.w, sp.f)]

\* the boxcar filters: from a whole position, 1 to MaxWidth wide
MaxWidth == 3
Boxcars == {Boxcar(R(a), R(a + W)) : a \in 0..(MaxWave - 1), W \in 1..MaxWidth}

Band_integration ==
    /\ pc = "spectrum" /\ ret = NoReturn
    /\ \E band \in Boxcars, nu \in BOOLEAN, AB \in BOOLEAN :
          ret' = [op |-> "Band_integration", band |-> band, nu |-> nu, AB |-> AB] @@
                 Band_integration_result(band, obj, nu, AB)
    /\ UNCHANGED <<pc, lines, atmo, obj, exc, star, log, fits>>

\* vels = np.arange(-maxv, maxv+deltav, deltav)
Vels(maxv, deltav) ==
    [k \in 1..ArangeCount(RNeg(maxv), RAdd(maxv, deltav), deltav) |->
        RAdd(RNeg(maxv), RMul(R(k - 1), deltav))]

\* q kept within the grid w
Within(w, q) == IF RLt(q, w[1]) THEN w[1] ELSE IF RLt(w[Len(w)], q) THEN w[Len(w)] ELSE q

\* Grid.Shift_spectrum: the spectrum seen at the velocity v, on the same
\* grid; the spectrum itself at v = 0
Shift_spectrum(sp, v) ==
    Interpolate(sp.f, sp.w,
                [k \in 1..Len(sp.w) |->
                    Within(sp.w, RMul(sp.w[k], RSub(R(1), RDiv(v, LightSpeed))))])

Pow5(a) == RMul(a, RMul(RMul(a, a), RMul(a, a)))

\* np.sum(spectrum_shifted*bandpass*wavelengths / (1-v/cts.c)**5), a float
IntFluxAt(sp, bandpass, v) ==
    Rounded(RDiv(RSum(VMul(VMul(Shift_spectrum(sp, v), bandpass), sp.w)),
                 Pow5(RSub(R(1), RDiv(v, LightSpeed)))))

\* the position size/2 of an array of the given size, counted from 1 (the
\* division of two integers is the whole quotient)
Middle(size) == size \div 2 + 1

\* intflux /= intflux[intflux.size/2]
Normalised(intflux) ==
    [k \in 1..Len(intflux) |-> Rounded(RDiv(intflux[k], intflux[Middle(Len(intflux))]))]

\* tmp = Misc.Fit_linear(intflux, x=vels/cts.c, b=1., inline=True); boost = tmp[1]
Doppler_fit(raw, intflux, vels) ==
    [raw |-> raw, intflux |-> intflux, vels |-> vels] @@
    Fit_linear(intflux, VScale(vels, RInv(LightSpeed)), UnitErr(Len(vels)), None, R(1))

Doppler_normalised(raw, vels) == Doppler_fit(raw, Normalised(raw), vels)

Doppler_boosting_factor_result(sp, bandpass, maxv, deltav) ==
    Doppler_normalised([k \in 1..Len(Vels(maxv, deltav)) |->
                            IntFluxAt(sp, bandpass, Vels(maxv, deltav)[k])],
                       Vels(maxv, deltav))

\* the velocities of the Doppler sampling; the largest stays below cts.c
MaxVs == {RMul(LightSpeed, Q(1, 4)), RMul(LightSpeed, Q(1, 2))}
DeltaVs == {RMul(LightSpeed, Q(1, 4)), RMul(LightSpeed, Q(1, 2))}
DopplerBands == {Boxcar(R(0), R(MaxWave)), Boxcar(R(1), R(2))}

Doppler_boosting_factor ==
    /\ pc = "spectrum" /\ ret = NoReturn
    /\ \E band \in DopplerBands, maxv \in MaxVs, deltav \in DeltaVs :
          \E r \in {Doppler_boosting_factor_result(obj, Band_func(band, obj.w), maxv, deltav)} :
              ret' = [op |-> "Doppler_boosting_factor", band |-> band, maxv |-> maxv,
                      deltav |-> deltav, raw |-> r.raw, intflux |-> r.intflux,
                      vels |-> r.vels, exc |-> r.exc, val |-> r.m]
    /\ UNCHANGED <<pc, lines, atmo, obj, exc, star, log, fits>>

InitFilter ==
    /\ pc = "spectrum"
    /\ obj \in Spectra
    /\ lines = <<>>
    /\ atmo = <<>>
    /\ exc = ""
    /\ star = NoSurface
    /\ ret = NoReturn
    /\ log = <<>>
    /\ fits = NoFits

NextFilter == Resample_spectrum \/ Band_integration \/ Doppler_boosting_factor \/ Drop

SpecFilter == InitFilter /\ [][NextFilter]_vars

---------------------------------------------------------------------------
(* Claims about the construction.                                          *)

Constructed == pc = "ready"

\* the lines of the file that are comments ('#' first) or blank (no field)
Ignorable(line) == line.c0 = "#" \/ line.ncols = 0

NotIgnorable(line) == ~Ignorable(line)

\* the records whose phases _Read_data stores when it does not raise
StoresDataset(line) ==
    /\ ~Ignorable(line)
    /\ line.ncols \in {7, 8} \/ (line.ncols = 9 /\ line.flag = "mag")

\* C1: after construction grouping[i] is the smallest index j <= i whose id is
\* the id of dataset i: grouping[i] <= i, equal ids share one value, a unique
\* id has grouping[i] = i, and the ids (V, V, B) give grouping [0, 0, 2].
C1_GroupingSmallestIndex ==
    Constructed =>
        LET ids == obj.data.id
            g == obj.grouping
            n == obj.ndataset
        IN  /\ DOMAIN g = 0..(n - 1)
            /\ \A i \in 0..(n - 1) :
                  /\ g[i] \in 0..i
                  /\ ids[g[i] + 1] = ids[i + 1]
                  /\ \A j \in 0..(n - 1) : ids[j + 1] = ids[i + 1] => g[i] <= j
                  /\ \A j \in 0..(n - 1) : ids[j + 1] = ids[i + 1] => g[j] = g[i]
                  /\ (\A j \in 0..(n - 1) : j # i => ids[j + 1] # ids[i + 1]) => g[i] = i
            /\ ids = <<"V", "V", "B">> => g = (0 :> 0 @@ 1 :> 0 @@ 2 :> 2)

C1_Witness == Constructed /\ obj.data.id = <<"V", "V", "B">>

\* C2: whenever __init__ gets past the comparison of the counts without an
\* exception, the number of datasets equals the number of atmosphere grids
\* (a mismatch aborts the construction).
C2_MismatchAborts ==
    pc \in {"partial", "counted", "lightcurve", "ready"} =>
        Len(obj.atmo_grid) = Len(obj.data.mag)

\* C7: a file made only of 7-, 8- and 9-column records flagged 'mag' or 'flux'
\* is read without an exception, and the constructed fitter holds a
\* magnitude, an error, a flux and a flux error sequence for every record.
C7_BothRepresentations ==
    (pc # "start" /\ Len(lines) >= 1 /\ \A k \in 1..Len(lines) :
        lines[k].c0 = "x" /\
        (lines[k].ncols \in {7, 8} \/ (lines[k].ncols = 9 /\ lines[k].flag \in {"mag", "flux"})))
    => /\ pc # "raised"
       /\ Constructed =>
            /\ Len(obj.data.mag) = Len(lines) /\ Len(obj.data.err) = Len(lines)
            /\ Len(obj.data.flux) = Len(lines) /\ Len(obj.data.flux_err) = Len(lines)

\* C8: for every record of 7, 8 or 9 columns that is stored, the stored
\* phases are raw phase minus shift when the id carries the marker '_', and
\* (raw phase minus shift) mod 1, a value of [0,1), when it does not.
C8_PhaseReduction ==
    pc \in {"data_read", "atmo_read", "partial", "counted", "lightcurve", "ready"} =>
        LET recs == SelectSeq(lines, StoresDataset)
        IN  /\ Len(obj.data.phase) = Len(recs)
            /\ \A i \in 1..Len(recs) :
                  LET raw == Loadtxt(recs[i].fln)[1]
                      ph == obj.data.phase[i]
                  IN  /\ Len(ph) = Len(raw)
                      /\ \A k \in 1..Len(raw) :
                            LET diff == RSub(raw[k], recs[i].shift)
                            IN  IF recs[i].id = "V_"
                                THEN ph[k] = diff
                                ELSE /\ RLe(R(0), ph[k]) /\ RLt(ph[k], R(1))
                                     /\ RSub(diff, ph[k])[2] = 1

\* a marked record stored with a phase outside [0,1) and an unmarked one
\* whose phase was reduced, the three formats being present
C8_Witness ==
    /\ Constructed
    /\ {lines[k].ncols : k \in 1..Len(lines)} = {7, 8, 9}
    /\ \E i \in 1..Len(obj.data.id) :
          obj.data.id[i] = "V_" /\ \E k \in 1..Len(obj.data.phase[i]) : obj.data.phase[i][k][1] < 0
    /\ \E i \in 1..Len(obj.data.id) :
          /\ obj.data.id[i] # "V_"
          /\ \E k \in 1..Len(obj.data.phase[i]) :
                obj.data.phase[i][k] # RSub(Loadtxt(obj.data.fln[i])[1][k], Q(3, 4))
                /\ lines[i].shift = Q(3, 4)

\* C9: a file holding a record (a line that is no comment and not blank) of a
\* column count other than 7, 8 and 9 makes _Read_data raise.
C9_BadColumnCountRaises ==
    (pc # "start" /\ \E k \in 1..Len(lines) :
        ~Ignorable(lines[k]) /\ lines[k].ncols \notin {7, 8, 9})
    => pc = "raised"

\* the record of 6 columns is reached after a dataset was stored
C9_Witness ==
    /\ pc = "raised" /\ exc = "Exception"
    /\ Len(obj.data.id) = 1
    /\ Len(lines) = 2 /\ lines[2].ncols = 6

\* C10: the comment lines and the blank lines, whitespace-only ones included,
\* are ignored: _Read_data ends as it does on the file without them.
C10_BlankLinesIgnored ==
    pc \in {"data_read", "raised"} =>
        LET r == Read_data_result(SelectSeq(lines, NotIgnorable))
        IN  exc = r.exc /\ obj.data = r.data

---------------------------------------------------------------------------
(* Properties of the calls, under SpecCalls.                               *)

GotFlux == ret.op = "Get_flux" /\ ret.exc = ""

Datasets == IF "ndataset" \in DOMAIN obj THEN 0..(obj.ndataset - 1) ELSE {}

\* the duplicates: the datasets whose group leader is an earlier dataset
Duplicates == {i \in Datasets : obj.grouping[i] < i}

\* the number of values returned before those of dataset i
RECURSIVE ValuesBefore(_)
ValuesBefore(i) == IF i = 0 THEN 0 ELSE ValuesBefore(i - 1) + Len(obj.data.phase[i])

\* the values a Get_flux result holds for dataset i, flattened or not
DatasetValue(i) ==
    IF ret.flat
    THEN SubSeq(ret.val, ValuesBefore(i) + 1, ValuesBefore(i) + Len(obj.data.phase[i + 1]))
    ELSE ret.val[i + 1]

\* ext[i]*AV + DM of dataset i for the DM and AV of the call
OwnShift(i) == RAdd(RMul(obj.data.ext[i + 1], NoneIsZero(ret.AV)), NoneIsZero(ret.DM))

\* the model evaluated directly at the observed phases of dataset i with the
\* atmosphere grid of dataset i
DirectEvaluation(i) ==
    [k \in 1..Len(obj.data.phase[i + 1]) |->
        Star_Mag_flux(star, obj.data.phase[i + 1][k], obj.atmo_grid[i + 1])]

MagFluxCalledFor(i) == \E n \in 1..Len(log) : log[n].ev = "Mag_flux" /\ log[n].i = i

\* C3: Get_flux with nsamples=None returns, for every dataset and every
\* observed phase of it, exactly Mag_flux at that phase with the dataset's own
\* atmosphere grid plus the DM/AV shift, also when datasets share an id.
C3_ExactWithoutSampling ==
    (GotFlux /\ IsNone(ret.nsamples)) =>
        \A i \in Datasets :
            /\ Len(DatasetValue(i)) = Len(obj.data.phase[i + 1])
            /\ \A k \in 1..Len(obj.data.phase[i + 1]) :
                  DatasetValue(i)[k] = RAdd(DirectEvaluation(i)[k], OwnShift(i))

\* C3 witness: such a call on two datasets of one id whose atmosphere grids
\* differ, so that a value taken from the other dataset would show.
C3_Witness ==
    /\ GotFlux /\ IsNone(ret.nsamples) /\ ~ret.flat
    /\ Duplicates # {}
    /\ \E i \in Duplicates :
          /\ obj.data.ext[i + 1] # obj.data.ext[obj.grouping[i] + 1]
          /\ ret.val[i + 1] # ret.val[obj.grouping[i] + 1]

\* the curve the leader g of a group is sampled with: Mag_flux at the shared
\* sample phases with the grid of g, plus the shift of g
LeaderCurve(g) ==
    [k \in 1..ret.nsamples[1] |->
        RAdd(Star_Mag_flux(star, SamplePhases(ret.nsamples[1])[k], obj.atmo_grid[g + 1]),
             OwnShift(g))]

\* what dataset i holds when its curve is that of its leader
CopyOfLeader(i) ==
    IF IsNone(ret.nsamples) THEN DatasetValue(obj.grouping[i])
    ELSE Interpolate(LeaderCurve(obj.grouping[i]), SamplePhases(ret.nsamples[1]),
                     obj.data.phase[i + 1])

\* C4 as stated: in every Get_flux call the curve of a duplicate dataset is
\* copied from its leader and Mag_flux is not evaluated for it.
C4_DedupInEveryCall ==
    GotFlux => \A i \in Duplicates : ~MagFluxCalledFor(i) /\ DatasetValue(i) = CopyOfLeader(i)

\* C4 amended: in every Get_flux call with nsamples set, the curve of a
\* duplicate dataset is the sampled curve of its leader and Mag_flux is not
\* evaluated for it.
C4_DedupWhenSampled ==
    (GotFlux /\ ~IsNone(ret.nsamples)) =>
        \A i \in Duplicates : ~MagFluxCalledFor(i) /\ DatasetValue(i) = CopyOfLeader(i)

\* C4 witness: a sampled call with a duplicate whose leader was evaluated.
C4_Witness ==
    /\ GotFlux /\ ~IsNone(ret.nsamples)
    /\ \E i \in Duplicates : MagFluxCalledFor(obj.grouping[i]) /\ ~MagFluxCalledFor(i)

\* C5: every value Get_flux returns for dataset i, duplicates included, holds
\* the shift ext[i]*AV + DM of dataset i's own extinction coefficient: it is
\* the value of the same call without shift, plus that shift.
C5_OwnShiftInEveryValue ==
    GotFlux =>
        \A i \in Datasets : \A k \in 1..Len(DatasetValue(i)) :
            DatasetValue(i)[k] =
                RAdd(Get_flux_value(obj, star, FALSE, R(0), R(0), ret.nsamples)[i + 1][k],
                     OwnShift(i))

GotChi2 == ret.op = "Calc_chi2" /\ ret.exc = ""

\* the offset the data stage fitted for band i (from 1)
DataStageOffset(i) ==
    IF ret.args.influx THEN NegLog2(fits.res1[i].out.m) ELSE fits.res1[i].out.b

\* the band-stage value of a nuisance parameter: the supplied one when given,
\* the fitted one when None was passed
BandStageValue(given, fitted) == IF IsNone(given) THEN fitted ELSE given

\* C6: in Calc_chi2 with offset_free=1 the chi2 is the sum of the data-stage
\* chi-squares plus the band-stage chi-square, and the offset reported for
\* band i is its data-stage offset minus ext[i]*AV + DM, DM and AV being the
\* band-stage values, which are those reported as 'dm' and 'av'.
C6_TwoStageChi2 ==
    (GotChi2 /\ ret.args.offset_free = 1) =>
        /\ Len(fits.res1) = obj.ndataset /\ Len(fits.res2) = 1
        /\ ret.chi2 = RAdd(RSum([i \in 1..obj.ndataset |-> fits.res1[i].out.chi2]),
                           fits.res2[1].out.chi2)
        /\ ret.dm = BandStageValue(ret.args.DM, fits.res2[1].out.b)
        /\ ret.av = BandStageValue(ret.args.AV, fits.res2[1].out.m)
        /\ ret.full_output =>
              \A i \in 1..obj.ndataset :
                  ret.offset[i] = RSub(DataStageOffset(i),
                                       RAdd(RMul(obj.data.ext[i], ret.av), ret.dm))

\* C6 witness: such a call with full output on two bands, the distance
\* modulus fitted and not zero, both stages leaving a chi-square.
C6_Witness ==
    /\ GotChi2 /\ ret.args.offset_free = 1 /\ ret.full_output
    /\ obj.ndataset = 2
    /\ IsNone(ret.args.DM) /\ ret.dm # R(0)
    /\ fits.res2[1].out.chi2 # R(0)
    /\ \E i \in 1..2 : fits.res1[i].out.chi2 # R(0)

\* a Calc_chi2 call made on a complete fitter, returned or raised
CalledChi2 == ret.op = "Calc_chi2" /\ "args" \in DOMAIN ret

\* C11: Calc_chi2 called with influx=True and full_output=True returns no
\* result: the combination is surfaced to the caller as an error.  Stated
\* for offset_free = 1, the branch that reads influx.
C11_FluxFullOutputRaises ==
    (CalledChi2 /\ ret.args.offset_free = 1 /\ ret.args.influx /\ ret.args.full_output)
        => ret.exc # ""

GotKeff == ret.op = "Get_Keff" /\ ret.exc = ""

\* the fit of a returned Get_Keff is a fit of the velocities sampled at the
\* phases k/nphases against sin(2 pi phase), and its slope is the value
KeffIsSlopeOfSineFit ==
    /\ Len(fits.res1) = 1
    /\ Len(fits.res1[1].x) = ret.args.nphases
    /\ \A k \in 1..ret.args.nphases :
          /\ fits.res1[1].x[k] = Sin2Pi(Q(k - 1, ret.args.nphases))
          /\ fits.res1[1].y[k] =
                Star_Keff(star, Q(k - 1, ret.args.nphases), obj.atmo_grid[ret.args.atmo_grid + 1])
    /\ IsNone(fits.res1[1].m_in)
    /\ ret.val = fits.res1[1].out.m

\* C12 as stated: Get_Keff takes the slope of a fit against sin(2 pi phase)
\* in which the intercept is fixed at 0.
C12_InterceptFixedAtZero ==
    GotKeff => (KeffIsSlopeOfSineFit /\ fits.res1[1].b_in = R(0))

\* C12 amended: Get_Keff takes the slope of a fit against sin(2 pi phase) in
\* which the slope and the intercept are both free.
C12_SlopeOfFreeFit ==
    GotKeff => (KeffIsSlopeOfSineFit /\ IsNone(fits.res1[1].b_in))

\* C12 witness: a returned Get_Keff whose fit found an intercept other than 0.
C12_Witness ==
    /\ GotKeff /\ KeffIsSlopeOfSineFit
    /\ fits.res1[1].out.b # R(0) /\ ret.val # R(0)

\* a state in which a constructed fitter can be called
CanCall == pc = "ready" /\ ret = NoReturn

\* the surfaces a sequence of earlier calls can have left in the star
HistorySurfaces == {NoSurface} \cup {Make_surface_result(par) : par \in Pars}

\* what a call made now returns, the star holding the surface st
FluxResultAfter(st, par, flat, da, nsamples) ==
    Get_flux_value(obj, Realized(st, par), flat, da[1], da[2], nsamples)

Chi2ResultAfter(st, par, offset_free, da, nsamples, influx) ==
    Calc_chi2_result(obj, Realized(st, par), par, offset_free, da[1], da[2], nsamples,
                     influx, TRUE).ret

KeffResultAfter(st, nphases, atmo_grid, make_surface) ==
    Get_Keff_result(obj, st, nphases, atmo_grid, make_surface).ret

KeffIndependentOfHistory(st, flags) ==
    \A nphases \in NPhases, atmo_grid \in 0..(MaxDatasets - 1), make_surface \in flags :
        KeffResultAfter(star, nphases, atmo_grid, make_surface) =
            KeffResultAfter(st, nphases, atmo_grid, make_surface)

FluxIndependentOfHistory(st) ==
    \A par \in Pars, flat \in BOOLEAN, da \in DMAVs, nsamples \in NSamples :
        FluxResultAfter(star, par, flat, da, nsamples) =
            FluxResultAfter(st, par, flat, da, nsamples)

Chi2IndependentOfHistory(st) ==
    \A par \in Pars, offset_free \in {0, 1}, da \in DMAVs, nsamples \in NSamples,
       influx \in BOOLEAN :
        Chi2ResultAfter(star, par, offset_free, da, nsamples, influx) =
            Chi2ResultAfter(st, par, offset_free, da, nsamples, influx)

\* C13 as stated: the result of any call of Calc_chi2, Get_flux or Get_Keff
\* (make_surface=False included) is the same whatever calls were made
\* before: it is the result the call has with any other surface earlier
\* calls can have left in the star.
C13_ResultsIndependentOfHistory ==
    CanCall => \A st \in HistorySurfaces \ {star} :
        /\ KeffIndependentOfHistory(st, BOOLEAN)
        /\ FluxIndependentOfHistory(st)
        /\ Chi2IndependentOfHistory(st)

\* C13 amended: the result of any call of Calc_chi2, Get_flux or Get_Keff
\* with make_surface=True is the same whatever calls were made before.
C13_RealizingCallsIndependentOfHistory ==
    CanCall => \A st \in HistorySurfaces \ {star} :
        /\ KeffIndependentOfHistory(st, {TRUE})
        /\ FluxIndependentOfHistory(st)
        /\ Chi2IndependentOfHistory(st)

\* C13 witness: a fitter of two datasets that was called with one parameter
\* vector and can be called again, a Get_flux with the other vector giving
\* other values than with the first.
C13_Witness ==
    /\ CanCall /\ star.made /\ obj.ndataset = 2
    /\ \E par \in Pars :
          /\ Make_surface_result(par) # star
          /\ FluxResultAfter(star, par, FALSE, <<R(0), R(0)>>, None) #
                Get_flux_value(obj, star, FALSE, R(0), R(0), None)

\* the arrays the fitter stores: those of each dataset, the flattened ones
\* and grouping
StoredArrays(o) ==
    [data |-> [k \in {"phase", "mag", "err", "flux", "flux_err", "ext", "calib"} |-> o.data[k]],
     flat |-> <<o.mag, o.err, o.phase, o.flux, o.flux_err, o.ext>>,
     grouping |-> o.grouping]

\* C14: after construction no sequence of Make_surface, Get_flux,
\* Get_flux_theoretical, Calc_chi2 and Get_Keff calls changes the arrays of
\* the datasets, the flattened arrays or grouping: they are those the
\* construction built from the files.
C14_StoredArraysUnchanged ==
    pc = "ready" => StoredArrays(obj) = StoredArrays(ObjectOf(lines, atmo))

\* C14 witness: a Calc_chi2 with offset_free=1 in the magnitude domain has
\* corrected the offsets of two bands in place, by something other than 0,
\* and the stored arrays are those of the construction.
C14_Witness ==
    /\ pc = "ready" /\ GotChi2 /\ ret.args.offset_free = 1 /\ ~ret.args.influx
    /\ obj.ndataset = 2
    /\ \A i \in 1..2 : ret.offset[i] # fits.offset_band[i]
    /\ StoredArrays(obj) = StoredArrays(ObjectOf(lines, atmo))

---------------------------------------------------------------------------
(* Properties of Utils.Filter, under SpecFilter.                           *)

\* Resample_spectrum has returned a resampled spectrum
GotResampled ==
    ret.op = "Resample_spectrum" /\ ret.exc = "" /\ ~IsNone(ret.resample)

\* the spectrum the resampling starts from: the input, trimmed to wrange
Original == Trimmed(obj, ret.wrange)

\* the straight line through samples j and j + 1 of the spectrum sp, at q
LinearBetween(sp, j, q) ==
    RAdd(sp.f[j], RMul(RSub(sp.f[j + 1], sp.f[j]),
                       RDiv(RSub(q, sp.w[j]), RSub(sp.w[j + 1], sp.w[j]))))

\* q lies between two neighbouring samples of sp, and v is the linear
\* interpolation between them
InterpolatedAt(sp, q, v) ==
    \E j \in 1..(Len(sp.w) - 1) :
        RLe(sp.w[j], q) /\ RLe(q, sp.w[j + 1]) /\ v = LinearBetween(sp, j, q)

\* C15: with resample set, the new grid is w[0], w[0]+resample,
\* w[0]+2*resample, ..., and the value at each new grid point is the linear
\* interpolation between the two original samples that bracket it.
C15_ResampledByInterpolation ==
    GotResampled =>
        /\ Len(ret.w) >= 1
        /\ \A k \in 1..Len(ret.w) :
              /\ ret.w[k] = RAdd(Original.w[1], RMul(R(k - 1), ret.resample))
              /\ InterpolatedAt(Original, ret.w[k], ret.f[k])

\* the scenario of C15: the grid [0, 1, 2, 3, 4] with resample = 2
C15_Scenario ==
    (GotResampled /\ obj.w = <<R(0), R(1), R(2), R(3), R(4)>> /\ ret.wrange = <<>>
        /\ ret.resample = R(2)) =>
        /\ ret.w = <<R(0), R(2), R(4)>>
        /\ ret.f = <<obj.f[1], obj.f[3], obj.f[5]>>

\* every new grid point that lies within the original grid has the
\* interpolated value
C15_InterpolatedWithin ==
    GotResampled =>
        \A k \in 1..Len(ret.w) :
            RLe(ret.w[k], Original.w[Len(Original.w)]) =>
                InterpolatedAt(Original, ret.w[k], ret.f[k])

\* Band_integration has returned the AB flux of a spectrum constant at Level
\* on a grid of positive values, for a boxcar that is non-zero on a grid
\* interval
FlatInBand ==
    /\ ret.op = "Band_integration" /\ ret.exc = "" /\ ret.AB
    /\ \A k \in 1..Len(obj.w) : obj.f[k] = Level /\ RLt(R(0), obj.w[k])
    /\ \E j \in 1..(Len(obj.w) - 1) :
          Band_func(ret.band, obj.w)[j] = R(1) /\ Band_func(ret.band, obj.w)[j + 1] = R(1)

\* C16: in AB mode, a spectrum constant at level L integrated against a
\* boxcar filter that is non-zero on at least one grid interval gives L,
\* whatever the width of the boxcar, for nu=True and for nu=False.
C16_FlatGivesLevel == FlatInBand => ret.val = Level

\* C16, amended: in AB mode with nu=True (a grid of positive frequencies), a
\* spectrum constant at level L integrated against a boxcar filter that is
\* non-zero on at least one grid interval gives L, whatever the width of the
\* boxcar.
C16_FlatGivesLevelInFrequency == (FlatInBand /\ ret.nu) => ret.val = Level

C16_Witness ==
    /\ FlatInBand /\ ret.nu /\ ret.val = Level
    /\ ret.band = Boxcar(R(1), R(1 + MaxWidth))
    /\ Len(obj.w) >= 3

---------------------------------------------------------------------------
(* Properties of the calls' evaluations of the surface model, under        *)
(* SpecCalls.                                                              *)

\* the Mag_flux evaluations of the call, in order
MagFluxEvents == SelectSeq(log, LAMBDA e : e.ev = "Mag_flux")

\* the phases Mag_flux was evaluated at for dataset i, in order
PhasesEvaluatedFor(i) ==
    LET evs == SelectSeq(log, LAMBDA e : e.ev = "Mag_flux" /\ e.i = i)
    IN  [k \in 1..Len(evs) |-> evs[k].phase]

\* the distinct ids of the datasets
DistinctIds == {obj.data.id[i + 1] : i \in Datasets}

\* C17: in a Get_flux call with nsamples = n, Mag_flux is evaluated only at
\* the phases k/n, k = 0..n-1, the same grid for every dataset evaluated, and
\* the number of evaluations is n times the number of distinct dataset ids.
C17_SampledEvaluations ==
    (GotFlux /\ ~IsNone(ret.nsamples)) =>
        LET n == ret.nsamples[1]
        IN  /\ \A e \in 1..Len(MagFluxEvents) :
                  \E k \in 0..(n - 1) : MagFluxEvents[e].phase = Q(k, n)
            /\ \A i \in Datasets :
                  MagFluxCalledFor(i) => PhasesEvaluatedFor(i) = [k \in 1..n |-> Q(k - 1, n)]
            /\ Len(MagFluxEvents) = n * Cardinality(DistinctIds)

\* C17 witness: a sampled call on two datasets of one id with different
\* numbers of observed points: n evaluations, not 2n.
C17_Witness ==
    /\ GotFlux /\ ~IsNone(ret.nsamples)
    /\ obj.ndataset = 2 /\ Cardinality(DistinctIds) = 1
    /\ Len(obj.data.phase[1]) # Len(obj.data.phase[2])
    /\ Len(MagFluxEvents) = ret.nsamples[1]

\* a Get_flux or Calc_chi2 call was made on a constructed fitter
CalledFluxOrChi2 == pc = "ready" /\ ret.op \in {"Get_flux", "Calc_chi2"}

\* the positions of the Make_surface invocations in the call's events
SurfaceCalls == {n \in 1..Len(log) : log[n].ev = "Make_surface"}

\* the same nine values in the other form: a dictionary for a list, a list
\* for a dictionary
OtherForm(par) ==
    IF par.isdict
    THEN ListPar(<<par.val.q, par.val.porb, par.val.incl, par.val.k1, par.val.omega,
                   par.val.filling, par.val.tempgrav, par.val.temp, par.val.tirr>>)
    ELSE DictPar(par.val)

\* the nine values the surface model holds after its Make_surface
Passed(st) ==
    <<st.q, st.porb, st.incl, st.k1, st.omega, st.filling, st.tempgrav, st.temp, st.tirr>>

\* C18: in every Get_flux call and every Calc_chi2 call the surface model's
\* Make_surface is invoked exactly once, with the call's parameter vector and
\* before every Mag_flux evaluation; the dictionary form and the positional
\* form of the same nine values pass the same nine values.
C18_SurfaceOnceAndFirst ==
    CalledFluxOrChi2 =>
        /\ SurfaceCalls = {1}
        /\ \A n \in 2..Len(log) : log[n].ev = "Mag_flux"
        /\ "par" \in DOMAIN ret =>
              /\ star = Make_surface_result(ret.par)
              /\ Passed(star) = Passed(Make_surface_result(OtherForm(ret.par)))
              /\ Passed(star) = IF ret.par.isdict THEN OtherForm(ret.par).val ELSE ret.par.val

\* C18 witness: a Calc_chi2 call with a dictionary that returned, with Mag_flux
\* evaluations after its one Make_surface.
C18_Witness ==
    /\ CalledFluxOrChi2 /\ ret.op = "Calc_chi2" /\ ret.exc = "" /\ ret.par.isdict
    /\ SurfaceCalls = {1} /\ Len(log) >= 3
    /\ star = Make_surface_result(ret.par)

\* Get_Keff was called with make_surface=True on a constructed fitter, for
\* an atmosphere grid it has
CalledKeffMakingSurface ==
    /\ pc = "ready" /\ ret.op = "Get_Keff" /\ ret.args.make_surface
    /\ ret.args.atmo_grid < obj.ndataset

\* C19: Get_Keff called with make_surface=True realizes the surface for the
\* given parameter vector before any velocity is sampled, then samples Keff
\* at the phases k/nphases, k = 0..nphases-1, and returns a fitted value.
C19_KeffRealizesThenSamples ==
    CalledKeffMakingSurface =>
        /\ ret.exc = ""
        /\ star = Make_surface_result(ret.args.par)
        /\ log = <<SurfaceEvent>> \o
                 [k \in 1..ret.args.nphases |-> KeffEvent(Q(k - 1, ret.args.nphases))]
        /\ Len(fits.res1) = 1 /\ ret.val = fits.res1[1].out.m

\* the sample below the phase among the n samples k/n, the last but one at most
SampleBelow(n, phase) ==
    IF RFloor(RMul(phase, R(n))) > n - 2 THEN n - 2
    ELSE IF RFloor(RMul(phase, R(n))) < 0 THEN 0
    ELSE RFloor(RMul(phase, R(n)))

\* the straight line through two neighbouring samples of a curve sampled at
\* the n phases k/n, at the phase
LineThroughSamples(curve, n, phase) ==
    LET j == SampleBelow(n, phase)
    IN  RAdd(curve[j + 1],
             RMul(RSub(curve[j + 2], curve[j + 1]), RSub(RMul(phase, R(n)), R(j))))

\* C20: in a Get_flux call with nsamples set, the values returned for a
\* duplicate dataset i are the linear interpolation of its leader's raw
\* n-sample curve at the observed phases of dataset i itself, one value for
\* each of them, whatever the number of observed points of the leader.
C20_DuplicateFromRawLeaderCurve ==
    (GotFlux /\ ~IsNone(ret.nsamples)) =>
        \A i \in Duplicates :
            /\ Len(DatasetValue(i)) = Len(obj.data.phase[i + 1])
            /\ \A k \in 1..Len(obj.data.phase[i + 1]) :
                  DatasetValue(i)[k] =
                      LineThroughSamples(LeaderCurve(obj.grouping[i]), ret.nsamples[1],
                                         obj.data.phase[i + 1][k])

\* C20 witness: a sampled call with a duplicate that has another number of
\* observed points than its leader, and a leader whose interpolated values
\* differ from its raw samples.
C20_Witness ==
    /\ GotFlux /\ ~IsNone(ret.nsamples)
    /\ \E i \in Duplicates :
          /\ Len(obj.data.phase[i + 1]) # Len(obj.data.phase[obj.grouping[i] + 1])
          /\ DatasetValue(obj.grouping[i]) # LeaderCurve(obj.grouping[i])
          /\ \E k \in 1..Len(obj.data.phase[i + 1]) :
                \A m \in 1..Len(DatasetValue(obj.grouping[i])) :
                    DatasetValue(i)[k] # DatasetValue(obj.grouping[i])[m]

\* Get_flux_theoretical has returned
GotTheoretical == ret.op = "Get_flux_theoretical" /\ ret.exc = ""

\* C21: Get_flux_theoretical returns, for every dataset i, one value per
\* element of phases[i], equal to Mag_flux at that phase with the atmosphere
\* grid of dataset i plus the shift of dataset i, for any phases list, also
\* when datasets of one id are given different phases.
C21_TheoreticalAtGivenPhases ==
    GotTheoretical =>
        \A i \in Datasets :
            /\ Len(ret.val[i + 1]) = Len(ret.phases[i + 1])
            /\ \A k \in 1..Len(ret.phases[i + 1]) :
                  ret.val[i + 1][k] =
                      RAdd(Star_Mag_flux(star, ret.phases[i + 1][k], obj.atmo_grid[i + 1]),
                           OwnShift(i))

\* C22: with a positive resample step, every point of the grid that
\* Resample_spectrum returns lies within [w[0], w[-1]] of the (trimmed) input
\* grid, so that no returned value is extrapolated.
C22_NewGridWithinOriginal ==
    (GotResampled /\ RLt(R(0), ret.resample)) =>
        \A k \in 1..Len(ret.w) :
            /\ RLe(Original.w[1], ret.w[k])
            /\ RLe(ret.w[k], Original.w[Len(Original.w)])

\* Doppler_boosting_factor was called with positive maxv and deltav on a
\* spectrum whose flux in the band is not zero
CalledDoppler ==
    /\ ret.op = "Doppler_boosting_factor"
    /\ RLt(R(0), ret.maxv) /\ RLt(R(0), ret.deltav)
    /\ IntFluxAt(obj, Band_func(ret.band, obj.w), R(0)) # R(0)

\* C23: for every positive maxv and deltav the element at index size/2 of
\* the velocity grid is the sample with v = 0, so that the fluxes are
\* normalised by the zero-velocity flux and the normalised flux at v = 0 is 1,
\* the intercept the fit fixes.
C23_NormalisedAtZeroVelocity ==
    CalledDoppler =>
        /\ ret.vels[Len(ret.vels) \div 2 + 1] = R(0)
        /\ ret.intflux[Len(ret.vels) \div 2 + 1] = R(1)
        /\ \A k \in 1..Len(ret.vels) :
              ret.intflux[k] =
                  Rounded(RDiv(ret.raw[k], IntFluxAt(obj, Band_func(ret.band, obj.w), R(0))))

\* when maxv is a whole multiple of deltav, the element at index size/2 is
\* the sample with v = 0 and the normalised flux there is 1
C23_ZeroVelocityWhenMultiple ==
    (CalledDoppler /\ \E m \in 1..8 : ret.maxv = RMul(R(m), ret.deltav)) =>
        /\ ret.vels[Len(ret.vels) \div 2 + 1] = R(0)
        /\ ret.intflux[Len(ret.vels) \div 2 + 1] = R(1)

---------------------------------------------------------------------------
(* Properties of the reading of records, under Spec.                       *)

\* the records of the file: the lines that are no comment and not blank
Records == SelectSeq(lines, NotIgnorable)

\* the per-dataset lists of the data read
DatasetLists == {"id", "phase", "mag", "err", "calib", "fln", "softening"}

\* C24: every non-comment, non-blank record either appends exactly one entry
\* to every per-dataset list or makes _Read_data fail: when _Read_data has
\* returned, every list holds one entry for each record of the file, a
\* 9-column record whose flag is neither 'mag' nor 'flux' included.
C24_NoRecordDropped ==
    (pc \notin {"start", "raised"}) =>
        \A key \in DatasetLists : Len(obj.data[key]) = Len(Records)

=============================================================================
